---- MODULE Spec2Model ----
(***************************************************************************)
(* A model of generate_review/ci_review.py: the excerpt resolver, the      *)
(* result selector, the comment renderer, the HTTP retry wrapper and the   *)
(* main routine that assembles and submits one review.                     *)
(*                                                                         *)
(* Strings are sequences of one-character strings.                         *)
(***************************************************************************)
EXTENDS Integers, Sequences, FiniteSets, TLC

VARIABLES fn, arg, ret,
          pc, LOG_RING, http, github, calls,
          files, page, srs_files, disk, staged_names, runner_calls, idx,
          store, overall_chunks, inline_comments,
          review_body, review_comments_payload, notice

\* ------------------------------------------------------------------ bounds
MaxExLen == 2
MaxLineLen == 2
MaxLines == 2
MaxFenceLen == 5
MaxMtime == 2
MaxFiles == 3
MaxDocs == 2
MaxPages == 2
MaxItems == 63

\* ------------------------------------------------------- program constants
max_tries == 3
LOG_MAXLEN == 1000
per_page == 100
MAX_OVERALL_LEN == 4000
MAX_INLINE == 80
TAIL_LINES == 120

\* ----------------------------------------------------------------- strings
Alphabet == {"a", "b", " "}

Whitespace == {" "}

Strs(n) == UNION {[1..k -> Alphabet] : k \in 0..n}

Min(a, b) == IF a <= b THEN a ELSE b

\* Optional[int]: None is modelled by 0, which no 1-based index equals and
\* which is falsy in Python exactly as None is.
None == 0

RECURSIVE lstrip(_)
lstrip(s) ==
    IF Len(s) > 0 /\ s[1] \in Whitespace THEN lstrip(Tail(s)) ELSE s

RECURSIVE rstrip(_)
rstrip(s) ==
    IF Len(s) > 0 /\ s[Len(s)] \in Whitespace
    THEN rstrip(SubSeq(s, 1, Len(s) - 1))
    ELSE s

\* str.strip()
strip(s) == rstrip(lstrip(s))

\* ex in ln
Contains(ex, ln) ==
    \E i \in 0..(Len(ln) - Len(ex)) : SubSeq(ln, i + 1, i + Len(ex)) = ex

\* re.sub(r"\s+", " ", s): every maximal whitespace run becomes one space
RECURSIVE collapse(_)
collapse(s) ==
    IF Len(s) = 0 THEN <<>>
    ELSE IF s[1] \in Whitespace
         THEN <<" ">> \o collapse(lstrip(s))
         ELSE <<s[1]>> \o collapse(Tail(s))

norm(s) == strip(collapse(s))

MaxOf(S) == CHOOSE x \in S : \A y \in S : y <= x

MinOf(S) == CHOOSE x \in S : \A y \in S : x <= y

\* a[i .. i+n-1] = b[j .. j+n-1]
Common(a, b, i, j, n) == SubSeq(a, i, i + n - 1) = SubSeq(b, j, j + n - 1)

\* the sizes of the blocks a and b have in common
BlockSizes(a, b) ==
    {n \in 1..Min(Len(a), Len(b)) :
        \E i \in 1..(Len(a) - n + 1), j \in 1..(Len(b) - n + 1) : Common(a, b, i, j, n)}

BlockAtI(a, b, n, i) ==
    [i |-> i,
     j |-> MinOf({j \in 1..(Len(b) - n + 1) : Common(a, b, i, j, n)}),
     k |-> n]

BlockOfSize(a, b, n) ==
    BlockAtI(a, b, n,
             MinOf({i \in 1..(Len(a) - n + 1) :
                       \E j \in 1..(Len(b) - n + 1) : Common(a, b, i, j, n)}))

\* difflib.SequenceMatcher.find_longest_match without junk: the longest
\* common block, the one starting earliest in a, then earliest in b.
find_longest_match(a, b) ==
    IF BlockSizes(a, b) = {} THEN [i |-> 1, j |-> 1, k |-> 0]
    ELSE BlockOfSize(a, b, MaxOf(BlockSizes(a, b)))

\* sum of the sizes of SequenceMatcher.get_matching_blocks(): the longest
\* block m, then the same to its left and to its right
RECURSIVE matches(_, _)
MatchesAround(a, b, m) ==
    IF m.k = 0 THEN 0
    ELSE m.k
         + matches(SubSeq(a, 1, m.i - 1), SubSeq(b, 1, m.j - 1))
         + matches(SubSeq(a, m.i + m.k, Len(a)), SubSeq(b, m.j + m.k, Len(b)))

matches(a, b) ==
    IF Len(a) = 0 \/ Len(b) = 0 THEN 0
    ELSE MatchesAround(a, b, find_longest_match(a, b))

\* SequenceMatcher.ratio() = 2.0 * matches / (len(a) + len(b)), 1.0 when both
\* are empty; kept as the fraction num / den.
ratio(a, b) ==
    IF Len(a) + Len(b) = 0 THEN [num |-> 1, den |-> 1]
    ELSE [num |-> 2 * matches(a, b), den |-> Len(a) + Len(b)]

\* x > y and x >= 0.6 on fractions with positive denominators
ScoreGt(x, y) == x.num * y.den > y.num * x.den

\* x >= 0.5
ScoreAtLeastHalf(x) == 2 * x.num >= x.den

ScoreAtLeastThreshold(x) == 10 * x.num >= 6 * x.den

\* the lines that contain ex
ExactHits(original_lines, ex) ==
    {i \in 1..Len(original_lines) : Contains(ex, original_lines[i])}

LastHit(hits) == IF hits = {} THEN None ELSE MaxOf(hits)

\* the exact pass returns at the first hit
FirstHit(hits) == IF hits = {} THEN None ELSE MinOf(hits)

\* lines 217-218
FuzzyStep(best, i, score) ==
    IF ScoreGt(score, best.score) THEN [i |-> i, score |-> score] ELSE best

\* lines 214-218: (best_i, best_score) after the lines from index i on
RECURSIVE FuzzyPass(_, _, _, _)
FuzzyPass(original_lines, exn, i, best) ==
    IF i > Len(original_lines) THEN best
    ELSE FuzzyPass(original_lines, exn, i + 1,
                   FuzzyStep(best, i, ratio(exn, norm(original_lines[i]))))

\* line 219
AcceptBest(best) ==
    IF best.i # None /\ ScoreAtLeastThreshold(best.score) THEN best.i ELSE None

\* lines 207-219, hit being the result of the exact pass
ExactOrFuzzy(original_lines, ex, hit) ==
    IF hit # None THEN hit
    ELSE AcceptBest(FuzzyPass(original_lines, norm(ex), 1,
                              [i |-> None, score |-> [num |-> 0, den |-> 1]]))

\* lines 204-219, ex being the trimmed excerpt
ResolveTrimmed(original_lines, ex) ==
    IF ex = <<>> THEN None
    ELSE ExactOrFuzzy(original_lines, ex, FirstHit(ExactHits(original_lines, ex)))

find_lineno_by_excerpt(original_lines, excerpt) ==
    ResolveTrimmed(original_lines, strip(excerpt))

\* --------------------------------------------------------------- rendering
ZWSP == "u200b"

\* the backtick character
Backtick == "bq"

Fence == <<Backtick, Backtick, Backtick>>

\* str.replace(Fence, two backticks + ZWSP + backtick): non-overlapping,
\* left to right
RECURSIVE ReplaceFence(_)
ReplaceFence(s) ==
    IF Len(s) >= 3 /\ SubSeq(s, 1, 3) = Fence
    THEN <<Backtick, Backtick, ZWSP, Backtick>> \o ReplaceFence(SubSeq(s, 4, Len(s)))
    ELSE IF Len(s) = 0 THEN <<>>
         ELSE <<s[1]>> \o ReplaceFence(Tail(s))

_sanitize_fence(s) == ReplaceFence(strip(s))

\* ", ".join(axes)
RECURSIVE JoinComma(_)
JoinComma(axes) ==
    IF axes = <<>> THEN <<>>
    ELSE IF Len(axes) = 1 THEN <<axes[1]>>
         ELSE <<axes[1], ", ">> \o JoinComma(Tail(axes))

\* The rendered body is kept as the sequence of the lines that "\n".join
\* joins; a fixed line is one token, a line with text <<>> is the empty string.
render_ai_review_comment(excerpt, detail, axes) ==
    LET ex == _sanitize_fence(excerpt)
        dt == strip(detail)
        parts == << [kind |-> "heading", text |-> <<"### AI Review">>],
                    [kind |-> "blank",   text |-> <<>>],
                    [kind |-> "axes",    text |-> IF JoinComma(axes) = <<>> THEN <<>>
                                                  ELSE <<"**axes:** ">> \o JoinComma(axes)],
                    [kind |-> "blank",   text |-> <<>>],
                    [kind |-> "label",   text |-> <<"**excerpt:**">>],
                    [kind |-> "open",    text |-> Fence \o <<"text">>],
                    [kind |-> "excerpt", text |-> ex],
                    [kind |-> "close",   text |-> Fence],
                    [kind |-> "blank",   text |-> <<>>],
                    [kind |-> "detail",  text |-> dt] >>
        NonEmpty(p) == p.text # <<>>
    IN  SelectSeq(parts, NonEmpty)

\* --------------------------------------------------------- result selector
\* A file name is a sequence of tokens; "_" and "." are tokens of their own.
\* name.split("__", 1)[1]: what follows the first "__"
RECURSIVE AfterFirstSep(_)
AfterFirstSep(name) ==
    IF Len(name) < 2 THEN <<>>
    ELSE IF name[1] = "_" /\ name[2] = "_" THEN SubSeq(name, 3, Len(name))
         ELSE AfterFirstSep(Tail(name))

\* s.rsplit(".", 1)[0]: what precedes the last ".", all of s when it has none
RECURSIVE BeforeLastDot(_)
BeforeLastDot(s) ==
    IF \A i \in 1..Len(s) : s[i] # "." THEN s
    ELSE IF s[Len(s)] = "." THEN SubSeq(s, 1, Len(s) - 1)
         ELSE BeforeLastDot(SubSeq(s, 1, Len(s) - 1))

ModelOfName(name) == BeforeLastDot(AfterFirstSep(name))

\* sorted(..., key=mtime, reverse=True): stable, so files of equal mtime keep
\* the order glob gave them
RECURSIVE InsertByMtimeDesc(_, _)
InsertByMtimeDesc(sorted, p) ==
    IF sorted = <<>> THEN <<p>>
    ELSE IF sorted[1].mtime >= p.mtime
         THEN <<sorted[1]>> \o InsertByMtimeDesc(Tail(sorted), p)
         ELSE <<p>> \o sorted

RECURSIVE InsertByMtimeAsc(_, _)
InsertByMtimeAsc(sorted, p) ==
    IF sorted = <<>> THEN <<p>>
    ELSE IF sorted[1].mtime <= p.mtime
         THEN <<sorted[1]>> \o InsertByMtimeAsc(Tail(sorted), p)
         ELSE <<p>> \o sorted

RECURSIVE SortAscending(_)
SortAscending(globbed) ==
    IF globbed = <<>> THEN <<>>
    ELSE InsertByMtimeAsc(SortAscending(SubSeq(globbed, 1, Len(globbed) - 1)),
                          globbed[Len(globbed)])

RECURSIVE SortCandidates(_)
SortCandidates(globbed) ==
    IF globbed = <<>> THEN <<>>
    ELSE InsertByMtimeDesc(SortCandidates(SubSeq(globbed, 1, Len(globbed) - 1)),
                           globbed[Len(globbed)])

\* lines 193-194
KeepIfNew(kept, p) ==
    IF \E i \in 1..Len(kept) : ModelOfName(kept[i].name) = ModelOfName(p.name)
    THEN kept
    ELSE Append(kept, p)

\* the loop over the candidates: latest_per_model.values() in insertion order
RECURSIVE KeepFirstPerModel(_, _)
KeepFirstPerModel(candidates, kept) ==
    IF candidates = <<>> THEN kept
    ELSE KeepFirstPerModel(Tail(candidates), KeepIfNew(kept, candidates[1]))

\* globbed: the files RESULT_DIR.glob(f"{stem}__*.json") yields, in its order
pick_latest_result_jsons_for_stem(globbed) ==
    KeepFirstPerModel(SortCandidates(globbed), <<>>)

\* ------------------------------------------------------------------- log
\* LOG_RING.append on a deque(maxlen=LOG_MAXLEN): the oldest entry is evicted
Log(ring, entry) ==
    LET r == Append(ring, entry)
    IN  IF Len(r) > LOG_MAXLEN THEN Tail(r) ELSE r

info(ring, msg) == Log(ring, <<"INFO">> \o msg)

warn(ring, msg) == Log(ring, <<"WARN">> \o msg)

RECURSIVE LogAll(_, _)
LogAll(ring, entries) ==
    IF entries = <<>> THEN ring
    ELSE LogAll(Log(ring, entries[1]), Tail(entries))

\* list(LOG_RING)[-TAIL_LINES:]
LogTail(ring) ==
    IF Len(ring) <= TAIL_LINES THEN ring
    ELSE SubSeq(ring, Len(ring) - TAIL_LINES + 1, Len(ring))

\* ------------------------------------------------------------ HTTP wrapper
\* One call of gh_get or gh_post: i is the loop variable, outcomes the result
\* of every requests call made so far, slept the time.sleep arguments so far.
HttpIdle ==
    [fn |-> "none", what |-> "none", i |-> 0,
     outcomes |-> <<>>, slept |-> <<>>, state |-> "idle", err |-> 0]

HttpCall(f, what) ==
    [fn |-> f, what |-> what, i |-> 1,
     outcomes |-> <<>>, slept |-> <<>>, state |-> "trying", err |-> 0]

\* one iteration of the retry loop whose request succeeded (ok) or not
RetryStepSleepAlways(h, ok) ==
    IF ok
    THEN [h EXCEPT !.outcomes = Append(@, "ok"), !.state = "returned"]
    ELSE IF h.i = max_tries
         THEN [h EXCEPT !.outcomes = Append(@, "fail"), !.state = "raised",
                        !.err = h.i, !.slept = Append(@, h.i)]
         ELSE [h EXCEPT !.outcomes = Append(@, "fail"), !.slept = Append(@, h.i),
                        !.i = h.i + 1]

RetryStep(h, ok) ==
    IF ok
    THEN [h EXCEPT !.outcomes = Append(@, "ok"), !.state = "returned"]
    ELSE IF h.i = max_tries
         THEN [h EXCEPT !.outcomes = Append(@, "fail"), !.state = "raised",
                        !.err = h.i]
         ELSE [h EXCEPT !.outcomes = Append(@, "fail"), !.slept = Append(@, h.i),
                        !.i = h.i + 1]

RetryLog(ring, h, ok, verb) ==
    IF ok \/ h.i = max_tries THEN ring
    ELSE warn(ring, <<verb, "retry", ToString(h.i)>>)

\* what a successful POST of payload creates on the pull request: a review
\* (kept as its body and the number of its inline comments) or a comment
Created(g, h, payload) ==
    IF h.what = "review"
    THEN [g EXCEPT !.reviews = Append(@, [body |-> payload.body,
                                          comments |-> Len(payload.comments)])]
    ELSE [g EXCEPT !.issue_comments = Append(@, payload)]

\* ------------------------------------------------------------ main's data
SrsEntry(d) == [dir |-> "docs/SRS/", stem |-> d, ext |-> ".md"]

OtherEntry == [dir |-> "generate_review/", stem |-> 0, ext |-> ".py"]

IsSrs(f) == f.dir = "docs/SRS/" /\ f.ext = ".md"

\* the pages GET /pulls/{n}/files may answer with, given the SRS documents
\* already listed: a short page, or a full page when another page may follow
PageBatches(p, have) ==
    {[i \in 1..(n + 1) |-> IF i <= n THEN SrsEntry(have + i) ELSE OtherEntry] :
        n \in 0..(MaxDocs - have)}
    \cup (IF p < MaxPages /\ have < MaxDocs
          THEN {[i \in 1..per_page |-> IF i = 1 THEN SrsEntry(have + 1) ELSE OtherEntry]}
          ELSE {})

\* the text of every document on disk
DiskLines == << <<"a", "b">>, <<"b", " ", "a">> >>

Tag(d, r, i) == <<"d", ToString(d), "r", ToString(r), "i", ToString(i)>>

\* the shapes of review item a result file may hold; "tag" stands for the
\* item's own text
NoItem ==
    [line |-> <<>>, comment |-> <<>>, detail |-> <<>>,
     axis |-> <<>>, axes |-> <<>>, lineno |-> 0]

ItemShapes ==
    << [NoItem EXCEPT !.line = <<"a", "b">>, !.comment = <<"tag">>, !.axis = <<"C">>],
       [NoItem EXCEPT !.line = <<" ", "b", " ", "a", " ">>, !.detail = <<"tag">>,
                      !.axes = <<"R", "A">>],
       [NoItem EXCEPT !.line = <<"b", "b", "b">>, !.comment = <<"tag">>],
       [NoItem EXCEPT !.comment = <<"tag">>],
       [NoItem EXCEPT !.line = <<"a", "b">>],
       [NoItem EXCEPT !.line = <<"a">>, !.comment = <<"tag">>, !.lineno = 7],
       [NoItem EXCEPT !.line = <<"a">>, !.comment = <<"tag">>, !.lineno = -3],
       [NoItem EXCEPT !.line = <<"b", " ", " ", "a">>, !.comment = <<"tag">>],
       [NoItem EXCEPT !.line = <<" ", " ">>, !.comment = <<"tag">>] >>

NKinds == Len(ItemShapes)

ItemOfKind(kind, tag) ==
    [ItemShapes[kind] EXCEPT !.comment = IF @ = <<>> THEN @ ELSE tag,
                             !.detail = IF @ = <<>> THEN @ ELSE tag]

Items(d, r, n) == [i \in 1..n |-> ItemOfKind(((i - 1) % NKinds) + 1, Tag(d, r, i))]

Text(id, n) == [text |-> id, len |-> n]

NoText == Text("", 0)

ResultFile(d, r, model, mtime, overall, summary, n) ==
    [name |-> <<ToString(d), "_", "_">> \o model \o <<".", "json">>,
     mtime |-> mtime,
     data |-> [valid |-> TRUE, overall |-> overall, summary |-> summary,
               review_items |-> IF r = 1 THEN Items(d, r, n) ELSE <<>>,
               comments |-> IF r = 1 THEN <<>> ELSE Items(d, r, n)]]

InvalidFile(d) ==
    [name |-> <<ToString(d), "_", "_", "broken", ".", "json">>, mtime |-> 3,
     data |-> [valid |-> FALSE, overall |-> NoText, summary |-> NoText,
               review_items |-> <<>>, comments |-> <<>>]]

\* what glob may find for document d, in glob's order: one of these
ResultOptions(d) ==
    << <<>>,
       << ResultFile(d, 1, <<"gpt-4", ".", "1">>, 1, Text("ov", 2000), NoText, NKinds),
          ResultFile(d, 2, <<"gpt-5">>, 2, NoText, Text("sum", 2000), NKinds) >>,
       << ResultFile(d, 1, <<"gpt-5">>, 2, Text("ov", 5), NoText, MaxItems) >>,
       << InvalidFile(d),
          ResultFile(d, 2, <<"gpt-5">>, 2, NoText, NoText, NKinds) >> >>

\* RESULT_DIR.glob(f"{stem}__*.json") under the store st, which names the
\* option each document's results follow
Glob(st, d) == ResultOptions(d)[st.results[d]]

\* Python's "a or b" on strings and lists, and on texts
Or(a, b) == IF a # <<>> THEN a ELSE b

OrText(a, b) == IF a.len > 0 THEN a ELSE b

\* lines 409-410
LineFor(lineno, found) ==
    IF lineno # 0 THEN lineno
    ELSE IF found # None THEN found ELSE 1

\* lines 402-403: the excerpt and the detail of an item
ExcerptOf(it) == strip(Or(it.line, <<>>))

DetailOf(it) == Or(Or(it.comment, it.detail), <<>>)

\* lines 405-406: an item with no excerpt or no detail is skipped
Actionable(it) == ExcerptOf(it) # <<>> /\ DetailOf(it) # <<>>

\* lines 408-418: the comment of an item that is not skipped
Comment(repo_rel, disk_lines, excerpt, detail, axes, lineno) ==
    [path |-> repo_rel,
     line |-> LineFor(lineno, find_lineno_by_excerpt(disk_lines, excerpt)),
     body |-> render_ai_review_comment(excerpt, detail, axes)]

AssembleItem(repo_rel, disk_lines, it) ==
    Comment(repo_rel, disk_lines, ExcerptOf(it), DetailOf(it),
            Or(Or(it.axis, it.axes), <<>>), it.lineno)

CommentsOf(repo_rel, disk_lines, kept) ==
    [i \in 1..Len(kept) |-> AssembleItem(repo_rel, disk_lines, kept[i])]

\* lines 401-418: the loop over the items of one result file appends, in
\* the items' order, the comment of every item it does not skip
AssembleItems(items, repo_rel, disk_lines, inline) ==
    inline \o CommentsOf(repo_rel, disk_lines, SelectSeq(items, Actionable))

\* lines 395-418: a result file that parsed
AddRecord(acc, repo_rel, disk_lines, overall, items) ==
    [acc EXCEPT
       !.overall_chunks =
           IF overall.len > 0
           THEN Append(@, [path |-> repo_rel, overall |-> overall])
           ELSE @,
       !.inline_comments = AssembleItems(items, repo_rel, disk_lines, @)]

\* lines 388-418: one result file
AssembleRecord(acc, repo_rel, disk_lines, jp) ==
    IF ~jp.data.valid
    THEN [acc EXCEPT !.log = warn(@, <<"invalid json">> \o jp.name)]
    ELSE AddRecord(acc, repo_rel, disk_lines,
                   OrText(OrText(jp.data.overall, jp.data.summary), NoText),
                   Or(Or(jp.data.review_items, jp.data.comments), <<>>))

\* lines 387-418: the loop over the result files selected for one document
RECURSIVE AssembleRecords(_, _, _, _)
AssembleRecords(related, repo_rel, disk_lines, acc) ==
    IF related = <<>> THEN acc
    ELSE AssembleRecords(Tail(related), repo_rel, disk_lines,
                         AssembleRecord(acc, repo_rel, disk_lines, related[1]))

\* len("**" + repo_rel + "**\n" + overall), repo_rel being docs/SRS/<d>.md
ChunkLen(c) == 2 + 13 + 3 + c.overall.len

RECURSIVE JoinedLen(_)
JoinedLen(chunks) ==
    IF chunks = <<>> THEN 0
    ELSE IF Len(chunks) = 1 THEN ChunkLen(chunks[1])
         ELSE ChunkLen(chunks[1]) + 2 + JoinedLen(Tail(chunks))

\* ("\n\n".join(overall_chunks))[:MAX_OVERALL_LEN]
ReviewBody(chunks) == [chunks |-> chunks, len |-> Min(JoinedLen(chunks), MAX_OVERALL_LEN)]

PayloadNoCap(inline) ==
    [i \in 1..Len(inline) |->
        [path |-> inline[i].path, line |-> inline[i].line,
         side |-> "RIGHT", body |-> inline[i].body]]

\* lines 426-434: inline_comments[:MAX_INLINE] with the side added
Payload(inline) ==
    [i \in 1..Min(Len(inline), MAX_INLINE) |->
        [path |-> inline[i].path, line |-> inline[i].line,
         side |-> "RIGHT", body |-> inline[i].body]]

\* ----------------------------------------------------------------- main
mainvars == <<pc, LOG_RING, http, github, calls, files, page, srs_files, disk,
              staged_names, runner_calls, idx, store, overall_chunks,
              inline_comments, review_body, review_comments_payload, notice>>

vars == <<fn, arg, ret, mainvars>>

MainState(p) ==
    /\ pc = p
    /\ LOG_RING = <<>>
    /\ http = HttpIdle
    /\ github = [reviews |-> <<>>, issue_comments |-> <<>>, inline_comments |-> <<>>]
    /\ calls = <<>>
    /\ files = <<>>
    /\ page = 1
    /\ srs_files = <<>>
    /\ disk = {}
    /\ staged_names = <<>>
    /\ runner_calls = <<>>
    /\ idx = 1
    /\ store = <<>>
    /\ overall_chunks = <<>>
    /\ inline_comments = <<>>
    /\ review_body = ReviewBody(<<>>)
    /\ review_comments_payload = <<>>
    /\ notice = <<>>

Init ==
    /\ fn = "main"
    /\ arg = <<>>
    /\ ret = <<"pending">>
    /\ MainState("start")

\* lines 303-319
Start ==
    /\ pc = "start"
    /\ \E env_ok \in BOOLEAN :
          IF env_ok
          THEN /\ LOG_RING' = info(LOG_RING, <<"Repo">>)
               /\ http' = HttpCall("gh_get", "files")
               /\ pc' = "get_changed_files"
               /\ ret' = ret
          ELSE /\ pc' = "done"
               /\ ret' = <<"exit", 2>>
               /\ UNCHANGED <<LOG_RING, http>>
    /\ UNCHANGED <<fn, arg, github, calls, files, page, srs_files, disk,
                   staged_names, runner_calls, idx, store, overall_chunks,
                   inline_comments, review_body, review_comments_payload, notice>>

\* lines 69-81: one iteration of gh_get's loop
gh_get ==
    /\ http.fn = "gh_get"
    /\ http.state = "trying"
    /\ \E ok \in BOOLEAN :
          /\ http' = RetryStep(http, ok)
          /\ LOG_RING' = RetryLog(LOG_RING, http, ok, "GET")
    /\ UNCHANGED <<fn, arg, ret, pc, github, calls, files, page, srs_files, disk,
                   staged_names, runner_calls, idx, store, overall_chunks,
                   inline_comments, review_body, review_comments_payload, notice>>

\* the json argument of the gh_post call in progress (lines 262-267, 227)
PostPayload ==
    IF http.what = "review"
    THEN [body |-> review_body, event |-> "COMMENT", comments |-> review_comments_payload]
    ELSE [body |-> notice]

\* lines 83-96: one iteration of gh_post's loop
gh_post ==
    /\ http.fn = "gh_post"
    /\ http.state = "trying"
    /\ \E ok \in BOOLEAN :
          /\ http' = RetryStep(http, ok)
          /\ LOG_RING' = RetryLog(LOG_RING, http, ok, "POST")
          /\ github' = IF ok THEN Created(github, http, PostPayload) ELSE github
    /\ UNCHANGED <<fn, arg, ret, pc, calls, files, page, srs_files, disk,
                   staged_names, runner_calls, idx, store, overall_chunks,
                   inline_comments, review_body, review_comments_payload, notice>>

\* an exception of gh_get that nothing in main catches
UncaughtRaise ==
    /\ pc \in {"get_changed_files", "get_pr_head_sha"}
    /\ http.state = "raised"
    /\ pc' = "done"
    /\ ret' = <<"raised", http.what, http.err>>
    /\ http' = HttpIdle
    /\ UNCHANGED <<fn, arg, LOG_RING, github, calls, files, page, srs_files, disk,
                   staged_names, runner_calls, idx, store, overall_chunks,
                   inline_comments, review_body, review_comments_payload, notice>>

\* lines 107-113: one page of get_changed_files has arrived
get_changed_files ==
    /\ pc = "get_changed_files"
    /\ http.state = "returned"
    /\ \E batch \in PageBatches(page, Len(SelectSeq(files, IsSrs))) :
          /\ files' = files \o batch
          /\ IF Len(batch) < per_page
             THEN /\ pc' = "filter"
                  /\ http' = HttpIdle
                  /\ page' = page
             ELSE /\ pc' = pc
                  /\ http' = HttpCall("gh_get", "files")
                  /\ page' = page + 1
    /\ UNCHANGED <<fn, arg, ret, LOG_RING, github, calls, srs_files, disk,
                   staged_names, runner_calls, idx, store, overall_chunks,
                   inline_comments, review_body, review_comments_payload, notice>>

\* lines 319-327: the list get_changed_files returned is read here and
\* never again
FilterSrsFiles ==
    /\ pc = "filter"
    /\ srs_files' = SelectSeq(files, IsSrs)
    /\ files' = <<>>
    /\ IF srs_files' = <<>>
       THEN /\ LOG_RING' = info(LOG_RING, <<"No SRS files changed. Exit.">>)
            /\ pc' = "done"
            /\ ret' = <<"returned">>
       ELSE /\ pc' = "stage"
            /\ UNCHANGED <<LOG_RING, ret>>
    /\ UNCHANGED <<fn, arg, http, github, calls, page, disk,
                   staged_names, runner_calls, idx, store, overall_chunks,
                   inline_comments, review_body, review_comments_payload, notice>>

\* lines 330-345: the document of stem d is or is not on disk
Stage(d, exists) ==
    IF exists
    THEN /\ disk' = disk \cup {d}
         /\ LOG_RING' = info(info(LOG_RING, <<"Numbered SRS", ToString(d)>>),
                             <<"Staged for review_runner", ToString(d)>>)
         /\ staged_names' = Append(staged_names, <<"ci_numbered__", ToString(d)>>)
    ELSE /\ LOG_RING' = warn(LOG_RING, <<"Missing on disk", ToString(d)>>)
         /\ UNCHANGED <<disk, staged_names>>

\* lines 329-345: one iteration of the staging loop
StageFile ==
    /\ pc = "stage"
    /\ \E exists \in BOOLEAN : Stage(srs_files[idx].stem, exists)
    /\ IF idx < Len(srs_files)
       THEN /\ idx' = idx + 1
            /\ pc' = pc
       ELSE /\ idx' = 1
            /\ pc' = IF staged_names' = <<>> THEN "collect" ELSE "runner"
    /\ UNCHANGED <<fn, arg, ret, http, github, calls, files, page, srs_files,
                   runner_calls, store, overall_chunks,
                   inline_comments, review_body, review_comments_payload, notice>>

\* lines 129-162 called from lines 348-352: the runner is started for
\* staged_names[idx]; a non-zero exit is subprocess.CalledProcessError
RunnerStepAborting(name, result) ==
    /\ runner_calls' = Append(runner_calls, [staged_name |-> name, result |-> result])
    /\ LOG_RING' =
          IF result = "ok"
          THEN Log(info(LOG_RING, <<"$ review_runner --srs">> \o name),
                   <<"[runner][out]">> \o name)
          ELSE warn(info(LOG_RING, <<"$ review_runner --srs">> \o name),
                    <<"review_runner failed for">> \o name)
    /\ IF idx < Len(staged_names) /\ result = "ok"
       THEN /\ idx' = idx + 1
            /\ pc' = pc
       ELSE /\ idx' = 1
            /\ pc' = "cleanup"

RunnerStep(name, result) ==
    /\ runner_calls' = Append(runner_calls, [staged_name |-> name, result |-> result])
    /\ LOG_RING' =
          IF result = "ok"
          THEN Log(info(LOG_RING, <<"$ review_runner --srs">> \o name),
                   <<"[runner][out]">> \o name)
          ELSE warn(info(LOG_RING, <<"$ review_runner --srs">> \o name),
                    <<"review_runner failed for">> \o name)
    /\ IF idx < Len(staged_names)
       THEN /\ idx' = idx + 1
            /\ pc' = pc
       ELSE /\ idx' = 1
            /\ pc' = "cleanup"

run_review_runner_with_staged_file ==
    /\ pc = "runner"
    /\ \E result \in {"ok", "CalledProcessError"} :
          RunnerStep(staged_names[idx], result)
    /\ UNCHANGED <<fn, arg, ret, http, github, calls, files, page, srs_files, disk,
                   staged_names, store, overall_chunks,
                   inline_comments, review_body, review_comments_payload, notice>>

\* lines 355-361: the staged copies, written by this run, are unlinked
CleanupStaged ==
    /\ pc = "cleanup"
    /\ LOG_RING' = LogAll(LOG_RING,
                          [i \in 1..Len(staged_names) |->
                              <<"INFO", "Cleaned staged file">> \o staged_names[i]])
    /\ pc' = "collect"
    /\ UNCHANGED <<fn, arg, ret, http, github, calls, files, page, srs_files, disk,
                   staged_names, runner_calls, idx, store, overall_chunks,
                   inline_comments, review_body, review_comments_payload, notice>>

Stems == {srs_files[i].stem : i \in 1..Len(srs_files)}

\* what generate_review_result/ holds once the runner is through
Stores ==
    {st \in [results : [Stems -> 1..4], unrelated : BOOLEAN] :
        st.unrelated => \A d \in Stems : Glob(st, d) = <<>>}

\* lines 364-370
collect_result_jsons ==
    /\ pc = "collect"
    /\ \E st \in Stores :
          /\ store' = st
          /\ IF ~st.unrelated /\ \A d \in Stems : Glob(st, d) = <<>>
             THEN /\ LOG_RING' = warn(LOG_RING, <<"No review JSON found.">>)
                  /\ pc' = "done"
                  /\ ret' = <<"returned">>
                  /\ http' = http
             ELSE /\ pc' = "get_pr_head_sha"
                  /\ http' = HttpCall("gh_get", "sha")
                  /\ UNCHANGED <<LOG_RING, ret>>
    /\ UNCHANGED <<fn, arg, github, calls, files, page, srs_files, disk,
                   staged_names, runner_calls, idx, overall_chunks,
                   inline_comments, review_body, review_comments_payload, notice>>

\* lines 229-235 and 370-373
get_pr_head_sha ==
    /\ pc = "get_pr_head_sha"
    /\ http.state = "returned"
    /\ http' = HttpIdle
    /\ pc' = "assemble"
    /\ idx' = 1
    /\ UNCHANGED <<fn, arg, ret, LOG_RING, github, calls, files, page, srs_files,
                   disk, staged_names, runner_calls, store, overall_chunks,
                   inline_comments, review_body, review_comments_payload, notice>>

Assembled(acc) ==
    /\ LOG_RING' = acc.log
    /\ overall_chunks' = acc.overall_chunks
    /\ inline_comments' = acc.inline_comments

AssembleDocument(f) ==
    IF f.stem \notin disk
    THEN /\ pc' = "done"
         /\ ret' = <<"raised", "read_text", f.stem>>
         /\ UNCHANGED <<LOG_RING, overall_chunks, inline_comments, idx>>
    ELSE /\ Assembled(AssembleRecords(
                 pick_latest_result_jsons_for_stem(Glob(store, f.stem)), f, DiskLines,
                 [log |-> LOG_RING, overall_chunks |-> overall_chunks,
                  inline_comments |-> inline_comments]))
         /\ ret' = ret
         /\ IF idx < Len(srs_files)
            THEN idx' = idx + 1 /\ pc' = pc
            ELSE idx' = 1 /\ pc' = "finalize"

\* lines 377-418: one iteration of the loop over srs_files; read_text raises
\* FileNotFoundError for a document that is not on disk
AssembleFile ==
    /\ pc = "assemble"
    /\ AssembleDocument(srs_files[idx])
    /\ UNCHANGED <<fn, arg, http, github, calls, files, page, srs_files, disk,
                   staged_names, runner_calls, store,
                   review_body, review_comments_payload, notice>>

\* lines 420-438: the batch is built and post_pull_review is called
BuildAndSubmit ==
    /\ pc = "finalize"
    /\ review_body' = ReviewBody(overall_chunks)
    /\ review_comments_payload' = Payload(inline_comments)
    /\ calls' = Append(calls, "post_pull_review")
    /\ http' = HttpCall("gh_post", "review")
    /\ pc' = "post_pull_review"
    /\ UNCHANGED <<fn, arg, ret, LOG_RING, github, files, page, srs_files, disk,
                   staged_names, runner_calls, idx, store, overall_chunks,
                   inline_comments, notice>>

\* line 439
ReviewPosted ==
    /\ pc = "post_pull_review"
    /\ http.state = "returned"
    /\ LOG_RING' = info(LOG_RING, <<"Posted review",
                                    IF review_body.len > 0 THEN "yes" ELSE "no",
                                    ToString(Len(review_comments_payload))>>)
    /\ http' = HttpIdle
    /\ pc' = "done"
    /\ ret' = <<"returned">>
    /\ UNCHANGED <<fn, arg, github, calls, files, page, srs_files, disk,
                   staged_names, runner_calls, idx, store, overall_chunks,
                   inline_comments, review_body, review_comments_payload, notice>>

\* lines 451-480: the notice, with the log as it is after the warning
FailureNotice(e, run_id, ring) ==
    [exc |-> e,
     overall |-> IF review_body.len > 0 THEN "yes" ELSE "no",
     inline |-> Len(review_comments_payload),
     run_url |-> run_id,
     tail |-> LogTail(ring)]

\* the rejected design (lines 489-503): every inline comment on its own
HandleReviewFailureInline ==
    /\ pc = "post_pull_review"
    /\ http.state = "raised"
    /\ LOG_RING' = warn(LOG_RING, <<"post_pull_review failed", ToString(http.err)>>)
    /\ calls' = calls \o [i \in 1..Len(review_comments_payload) |-> "post_inline_comment"]
    /\ github' = [github EXCEPT !.inline_comments = review_comments_payload]
    /\ http' = HttpIdle
    /\ pc' = "done"
    /\ ret' = <<"returned">>
    /\ UNCHANGED <<fn, arg, files, page, srs_files, disk,
                   staged_names, runner_calls, idx, store, overall_chunks,
                   inline_comments, review_body, review_comments_payload, notice>>

\* lines 440-483: the handler of a failed post_pull_review, up to the call
\* of post_issue_comment
HandleReviewFailure ==
    /\ pc = "post_pull_review"
    /\ http.state = "raised"
    /\ LOG_RING' = warn(LOG_RING, <<"post_pull_review failed", ToString(http.err)>>)
    /\ calls' = Append(calls, "post_issue_comment")
    /\ \E run_id \in BOOLEAN :
          notice' = FailureNotice(<<"POST failed", ToString(http.err)>>, run_id, LOG_RING')
    /\ http' = HttpCall("gh_post", "notice")
    /\ pc' = "post_issue_comment"
    /\ UNCHANGED <<fn, arg, ret, github, files, page, srs_files, disk,
                   staged_names, runner_calls, idx, store, overall_chunks,
                   inline_comments, review_body, review_comments_payload>>

\* line 484
NoticePosted ==
    /\ pc = "post_issue_comment"
    /\ http.state = "returned"
    /\ LOG_RING' = info(LOG_RING, <<"Posted failure notice comment instead of inline fallback.">>)
    /\ http' = HttpIdle
    /\ pc' = "done"
    /\ ret' = <<"returned">>
    /\ UNCHANGED <<fn, arg, github, calls, files, page, srs_files, disk,
                   staged_names, runner_calls, idx, store, overall_chunks,
                   inline_comments, review_body, review_comments_payload, notice>>

NoticeFailedReraise ==
    /\ pc = "post_issue_comment"
    /\ http.state = "raised"
    /\ ret' = <<"raised", http.what, http.err>>
    /\ http' = HttpIdle
    /\ pc' = "done"
    /\ UNCHANGED <<fn, arg, LOG_RING, github, calls, files, page, srs_files, disk,
                   staged_names, runner_calls, idx, store, overall_chunks,
                   inline_comments, review_body, review_comments_payload, notice>>

\* lines 485-486
NoticeFailed ==
    /\ pc = "post_issue_comment"
    /\ http.state = "raised"
    /\ LOG_RING' = warn(LOG_RING, <<"failed to post failure notice", ToString(http.err)>>)
    /\ http' = HttpIdle
    /\ pc' = "done"
    /\ ret' = <<"returned">>
    /\ UNCHANGED <<fn, arg, github, calls, files, page, srs_files, disk,
                   staged_names, runner_calls, idx, store, overall_chunks,
                   inline_comments, review_body, review_comments_payload, notice>>

Next ==
    \/ Start
    \/ gh_get
    \/ gh_post
    \/ UncaughtRaise
    \/ get_changed_files
    \/ FilterSrsFiles
    \/ StageFile
    \/ run_review_runner_with_staged_file
    \/ CleanupStaged
    \/ collect_result_jsons
    \/ get_pr_head_sha
    \/ AssembleFile
    \/ BuildAndSubmit
    \/ ReviewPosted
    \/ HandleReviewFailure
    \/ NoticePosted
    \/ NoticeFailed

Spec == Init /\ [][Next]_vars

\* ------------------------------------------------ the resolver on its own
LineSeqs == UNION {[1..n -> Strs(MaxLineLen)] : n \in 0..MaxLines}

ResolveInit ==
    /\ fn = "find_lineno_by_excerpt"
    /\ arg \in [original_lines : LineSeqs, excerpt : Strs(MaxExLen)]
    /\ ret = <<"pending">>
    /\ MainState("idle")

ResolveCall ==
    /\ fn = "find_lineno_by_excerpt"
    /\ ret = <<"pending">>
    /\ ret' = <<"returned", find_lineno_by_excerpt(arg.original_lines, arg.excerpt)>>
    /\ UNCHANGED <<fn, arg, mainvars>>

ResolveNext == ResolveCall

SpecResolve == ResolveInit /\ [][ResolveNext]_vars

\* ------------------------------------------------ the renderer on its own
FenceAlphabet == {Backtick, "a", " "}

FenceStrs == UNION {[1..n -> FenceAlphabet] : n \in 0..MaxFenceLen}

RenderInit ==
    /\ fn = "render_ai_review_comment"
    /\ arg \in [excerpt : FenceStrs, detail : {<<>>, <<"d">>},
                axes : {<<>>, <<"C">>, <<"C", "R">>}]
    /\ ret = <<"pending">>
    /\ MainState("idle")

RenderCall ==
    /\ fn = "render_ai_review_comment"
    /\ ret = <<"pending">>
    /\ ret' = <<"returned", render_ai_review_comment(arg.excerpt, arg.detail, arg.axes)>>
    /\ UNCHANGED <<fn, arg, mainvars>>

RenderNext == RenderCall

SpecRender == RenderInit /\ [][RenderNext]_vars

\* ------------------------------------------------ the selector on its own
\* "<stem>__<model>.json"
ResultName(stem, model) == stem \o <<"_", "_">> \o model \o <<".", "json">>

\* the names a pattern "<stem>__*.json" with a wildcard in the stem matches
GlobbedFiles ==
    {[name |-> ResultName(stem, model), model |-> model, mtime |-> t] :
        stem \in {<<"se24">>, <<"se25">>},
        model \in {<<"gpt-5">>, <<"gpt-4", ".", "1">>},
        t \in 1..MaxMtime}

\* glob yields every file once, in an order of its own
GlobOrders ==
    {g \in UNION {[1..n -> GlobbedFiles] : n \in 0..MaxFiles} :
        \A i, j \in 1..Len(g) : i # j => g[i].name # g[j].name}

SelectInit ==
    /\ fn = "pick_latest_result_jsons_for_stem"
    /\ arg \in [globbed : GlobOrders]
    /\ ret = <<"pending">>
    /\ MainState("idle")

SelectCall ==
    /\ fn = "pick_latest_result_jsons_for_stem"
    /\ ret = <<"pending">>
    /\ ret' = <<"returned", pick_latest_result_jsons_for_stem(arg.globbed)>>
    /\ UNCHANGED <<fn, arg, mainvars>>

SelectNext == SelectCall

SpecSelect == SelectInit /\ [][SelectNext]_vars

\* ================================================================ claims
Last(s) == s[Len(s)]

Count(s, x) == Cardinality({i \in 1..Len(s) : s[i] = x})

\* the combined submission was made and failed
ReviewFailed ==
    /\ Count(calls, "post_pull_review") = 1
    /\ github.reviews = <<>>
    /\ pc \in {"post_issue_comment", "done"}

\* C1 (as amended): after a failed post_pull_review, post_issue_comment is
\* called exactly once and post_inline_comment never; at most one notice
\* comment exists, exactly one when that call succeeded and none when it
\* failed; the notice names the number of inline comments of the batch.
C1_OneNoticeCall ==
    /\ github.inline_comments = <<>>
    /\ Count(calls, "post_inline_comment") = 0
    /\ Len(github.issue_comments) <= 1
    /\ ReviewFailed
       => /\ Count(calls, "post_issue_comment") = 1
          /\ notice.inline = Len(review_comments_payload)
          /\ notice.overall = (IF review_body.len > 0 THEN "yes" ELSE "no")
          /\ pc = "done"
             => \/ /\ github.issue_comments = <<[body |-> notice]>>
                   /\ Last(LOG_RING)[1] = "INFO"
                \/ /\ github.issue_comments = <<>>
                   /\ Last(LOG_RING)[2] = "failed to post failure notice"

\* a batch of MAX_INLINE inline comments failed and one notice was posted
C1_Witness ==
    /\ pc = "done"
    /\ ReviewFailed
    /\ Len(review_comments_payload) = MAX_INLINE
    /\ Len(github.issue_comments) = 1
    /\ github.issue_comments[1].body.inline = MAX_INLINE

\* C1 as stated: whenever the combined submission failed, exactly one notice
\* comment is on the pull request at the end of the run.
C1_Original ==
    (pc = "done" /\ ReviewFailed)
    => /\ Len(github.issue_comments) = 1
       /\ github.inline_comments = <<>>

\* C2: a step taken when the sending of the notice has failed logs the
\* failure and ends the run in Done, main returning without an exception.
C2_NoticeFailureSwallowed ==
    [][(pc = "post_issue_comment" /\ http.state = "raised")
       => /\ pc' = "done"
          /\ ret' = <<"returned">>
          /\ Last(LOG_RING') = <<"WARN", "failed to post failure notice",
                                 ToString(max_tries)>>]_vars

\* the review and the notice both failed and main has returned
C2_Witness ==
    /\ pc = "done"
    /\ ReviewFailed
    /\ github.issue_comments = <<>>
    /\ ret = <<"returned">>
    /\ Last(LOG_RING)[2] = "failed to post failure notice"

\* C3: every comment the assembler has put in the batch has a line >= 1.
C3_PositiveLines ==
    \A i \in 1..Len(inline_comments) : inline_comments[i].line >= 1

\* the text render_ai_review_comment puts between the two fence lines
Embedded(body) ==
    SelectSeq(body, LAMBDA p : p.kind = "excerpt")

\* C4: the sanitized excerpt embedded in the fenced block holds no three
\* consecutive backticks.
C4_NoFenceInExcerpt ==
    (fn = "render_ai_review_comment" /\ ret[1] = "returned")
    => \A i \in 1..Len(Embedded(ret[2])) : ~Contains(Fence, Embedded(ret[2])[i].text)

\* C5 (as amended): when the trimmed excerpt is non-empty and some line
\* contains it, the result is the 1-based index of the first such line.
C5_FirstTrimmedOccurrence ==
    (/\ fn = "find_lineno_by_excerpt"
     /\ ret[1] = "returned"
     /\ strip(arg.excerpt) # <<>>
     /\ \E i \in 1..Len(arg.original_lines) :
            Contains(strip(arg.excerpt), arg.original_lines[i]))
    => /\ ret[2] \in 1..Len(arg.original_lines)
       /\ Contains(strip(arg.excerpt), arg.original_lines[ret[2]])
       /\ \A j \in 1..(ret[2] - 1) :
              ~Contains(strip(arg.excerpt), arg.original_lines[j])

\* an untrimmed excerpt found in the second of two lines that both contain
\* its trimmed form: line 1 is returned
C5_Witness ==
    /\ fn = "find_lineno_by_excerpt"
    /\ ret[1] = "returned"
    /\ Len(arg.original_lines) = 2
    /\ strip(arg.excerpt) # <<>>
    /\ strip(arg.excerpt) # arg.excerpt
    /\ ~Contains(arg.excerpt, arg.original_lines[1])
    /\ Contains(arg.excerpt, arg.original_lines[2])
    /\ ret[2] = 1

\* C5 as stated: every non-empty excerpt that occurs verbatim in a line
\* resolves to the first line in which it (untrimmed) occurs.
C5_Original ==
    (/\ fn = "find_lineno_by_excerpt"
     /\ ret[1] = "returned"
     /\ arg.excerpt # <<>>
     /\ \E i \in 1..Len(arg.original_lines) :
            Contains(arg.excerpt, arg.original_lines[i]))
    => /\ ret[2] \in 1..Len(arg.original_lines)
       /\ Contains(arg.excerpt, arg.original_lines[ret[2]])
       /\ \A j \in 1..(ret[2] - 1) :
              ~Contains(arg.excerpt, arg.original_lines[j])

\* similarity of the whitespace-normalized excerpt and line i is below 0.60
BelowThreshold(i) ==
    LET r == ratio(norm(arg.excerpt), norm(arg.original_lines[i]))
    IN  10 * r.num < 6 * r.den

NoExactHit ==
    \A i \in 1..Len(arg.original_lines) :
        ~Contains(strip(arg.excerpt), arg.original_lines[i])

\* C9: with no substring match and every similarity below 0.60 the result
\* is None, and a result without a substring match has similarity >= 0.60.
C9_UnresolvedBelowThreshold ==
    (fn = "find_lineno_by_excerpt" /\ ret[1] = "returned" /\ NoExactHit)
    => /\ (\A i \in 1..Len(arg.original_lines) : BelowThreshold(i))
          => ret[2] = None
       /\ ret[2] # None
          => /\ ret[2] \in 1..Len(arg.original_lines)
             /\ ~BelowThreshold(ret[2])

\* a line is similar to the excerpt, but by less than 0.60: unresolved
C9_Witness ==
    /\ fn = "find_lineno_by_excerpt"
    /\ ret[1] = "returned"
    /\ NoExactHit
    /\ strip(arg.excerpt) # <<>>
    /\ \E i \in 1..Len(arg.original_lines) :
           /\ ratio(norm(arg.excerpt), norm(arg.original_lines[i])).num > 0
           /\ BelowThreshold(i)
    /\ \A i \in 1..Len(arg.original_lines) : BelowThreshold(i)
    /\ ret[2] = None

\* result files i and j of a sequence are of the same model
SameModel(g, i, j) == g[i].model = g[j].model

\* C6: the result holds at most one file per model, only files glob gave,
\* and for every model with a candidate a file no older than any of them.
C6_LatestPerModel ==
    (fn = "pick_latest_result_jsons_for_stem" /\ ret[1] = "returned")
    => /\ \A i, j \in 1..Len(ret[2]) : i # j => ~SameModel(ret[2], i, j)
       /\ \A i \in 1..Len(ret[2]) :
              \E j \in 1..Len(arg.globbed) : arg.globbed[j] = ret[2][i]
       /\ \A j \in 1..Len(arg.globbed) :
              \E i \in 1..Len(ret[2]) :
                  /\ ret[2][i].model = arg.globbed[j].model
                  /\ ret[2][i].mtime >= arg.globbed[j].mtime

\* glob gave an older file of a model before a newer one of the same model,
\* and the newer one is returned
C6_Witness ==
    /\ fn = "pick_latest_result_jsons_for_stem"
    /\ ret[1] = "returned"
    /\ Len(arg.globbed) >= 2
    /\ SameModel(arg.globbed, 1, 2)
    /\ arg.globbed[1].mtime < arg.globbed[2].mtime
    /\ \E i \in 1..Len(ret[2]) : ret[2][i] = arg.globbed[2]

RunnerNames == [i \in 1..Len(runner_calls) |-> runner_calls[i].staged_name]

\* C7: the runner is started once per staged document, in order, whatever
\* the earlier runs ended with, and every failed run is logged.
C7_EveryStagedDocumentRun ==
    /\ pc \in {"start", "get_changed_files", "filter", "stage"} => runner_calls = <<>>
    /\ pc = "runner" => RunnerNames = SubSeq(staged_names, 1, idx - 1)
    /\ pc \notin {"start", "get_changed_files", "filter", "stage", "runner"}
       => RunnerNames = staged_names
    /\ \A i \in 1..Len(runner_calls) :
          runner_calls[i].result = "CalledProcessError"
          => \E n \in 1..Len(LOG_RING) :
                LOG_RING[n] = <<"WARN", "review_runner failed for">>
                              \o runner_calls[i].staged_name

\* the run for the first staged document failed and the second was started
C7_Witness ==
    /\ pc = "cleanup"
    /\ Len(staged_names) = 2
    /\ Len(runner_calls) = 2
    /\ runner_calls[1].result = "CalledProcessError"
    /\ runner_calls[2].staged_name = staged_names[2]

DetailsOf(kept) == [i \in 1..Len(kept) |-> DetailOf(kept[i])]

\* the details of the items of one result file that are not skipped
RecordDetails(jp) ==
    IF ~jp.data.valid THEN <<>>
    ELSE DetailsOf(SelectSeq(Or(jp.data.review_items, jp.data.comments), Actionable))

RECURSIVE RecordsDetails(_)
RecordsDetails(related) ==
    IF related = <<>> THEN <<>>
    ELSE RecordDetails(related[1]) \o RecordsDetails(Tail(related))

\* the details of all items, documents in the order of srs_files, then the
\* records selected for a document, then the items of a record
RECURSIVE ProducedDetails(_)
ProducedDetails(docs) ==
    IF docs = <<>> THEN <<>>
    ELSE RecordsDetails(pick_latest_result_jsons_for_stem(Glob(store, docs[1].stem)))
         \o ProducedDetails(Tail(docs))

\* the details the bodies of a list of comments end with
BodyDetails(comments) == [i \in 1..Len(comments) |-> Last(comments[i].body).text]

Submitted == Count(calls, "post_pull_review") = 1

FirstOf(produced, n) == SubSeq(produced, 1, Min(Len(produced), n))

\* C8: the submitted list is the first MAX_INLINE comments produced, all of
\* them when there are at most MAX_INLINE, in the order produced: documents
\* in the order of srs_files, then records, then the items of a record.
C8_FirstInlineCap ==
    /\ Submitted
       => /\ Len(review_comments_payload) =
                 (IF Len(inline_comments) > MAX_INLINE THEN MAX_INLINE
                  ELSE Len(inline_comments))
          /\ \A i \in 1..Len(review_comments_payload) :
                 /\ review_comments_payload[i].path = inline_comments[i].path
                 /\ review_comments_payload[i].line = inline_comments[i].line
                 /\ review_comments_payload[i].body = inline_comments[i].body
                 /\ review_comments_payload[i].side = "RIGHT"
    /\ (pc = "post_pull_review" /\ http.outcomes = <<>>)
       => BodyDetails(review_comments_payload)
              = FirstOf(ProducedDetails(srs_files), MAX_INLINE)

\* more than MAX_INLINE comments were produced and the review was posted
C8_Witness ==
    /\ pc = "done"
    /\ Len(inline_comments) > MAX_INLINE
    /\ Len(review_comments_payload) = MAX_INLINE
    /\ github.reviews = <<[body |-> review_body, comments |-> MAX_INLINE]>>

\* C10: a call of gh_get or gh_post makes at most max_tries requests, all
\* but the last failed; it sleeps 1, 2, ... seconds, once after every failed
\* request but the last one allowed; it returns on the first success and
\* raises the error of request max_tries when all have failed.
C10_BoundedRetry ==
    http.state # "idle"
    => /\ Len(http.outcomes) <= max_tries
       /\ \A n \in 1..(Len(http.outcomes) - 1) : http.outcomes[n] = "fail"
       /\ http.slept = [n \in 1..Len(http.slept) |-> n]
       /\ http.state = "trying"
          => /\ http.i = Len(http.outcomes) + 1
             /\ http.i <= max_tries
             /\ Len(http.slept) = Len(http.outcomes)
             /\ \A n \in 1..Len(http.outcomes) : http.outcomes[n] = "fail"
       /\ http.state = "returned"
          => /\ Last(http.outcomes) = "ok"
             /\ Len(http.slept) = Len(http.outcomes) - 1
       /\ http.state = "raised"
          => /\ Len(http.outcomes) = max_tries
             /\ Last(http.outcomes) = "fail"
             /\ http.err = max_tries
             /\ Len(http.slept) = max_tries - 1

\* a gh_post whose last allowed request failed has raised
C10_Witness ==
    /\ http.fn = "gh_post"
    /\ http.state = "raised"
    /\ http.outcomes = <<"fail", "fail", "fail">>
    /\ http.slept = <<1, 2>>

====
